---- MODULE Spec2Model ----
(***************************************************************************)
(* A model of the radix-16 Merkle Patricia Tree of off-chain/lib/index.js: *)
(* Tree.fromList, Tree.childAt, Tree.prove / walk, Proof.rewind,           *)
(* Proof.verify and Proof.serialise.                                       *)
(*                                                                         *)
(* Buffers are sequences of bytes.  blake2b is modelled as an ideal        *)
(* (collision-free) function: the digest of a message is the message       *)
(* between two bracket bytes that occur in no message, so two digests are  *)
(* equal exactly when their messages are.  The keys of the values (the hex *)
(* renderings of their digests) are KeyLen-nibble strings, pairwise        *)
(* distinct.                                                               *)
(***************************************************************************)
EXTENDS Integers, Sequences, FiniteSets, TLC

\* ------------------------------------------------------------------ bounds

\* Number of distinct values (buffers <<0>> .. <<NumValues - 1>>).
NumValues == 4

\* Longest list handed to Tree.fromList.
MaxLen == 3

\* Number of nibbles of a key (64 in the program: 2 * DIGEST_LENGTH).
KeyLen == 3

\* Longest path handed to Tree.childAt.
MaxPath == 2

\* --------------------------------------------------------------- constants

DIGEST_LENGTH == 32

\* Number of slots of a BranchNode ('0123456789abcdef').
Radix == 16

\* ----------------------------------------------------------------- helpers

Min(a, b) == IF a < b THEN a ELSE b

\* String.prototype.slice / Array.prototype.slice, 0-indexed, end exclusive.
slice(s, from, to) == SubSeq(s, from + 1, Min(to, Len(s)))

sliceFrom(s, from) == SubSeq(s, from + 1, Len(s))

startsWith(s, p) == Len(p) <= Len(s) /\ SubSeq(s, 1, Len(p)) = p

\* Buffer.concat / Array.prototype.flat on a sequence of sequences.
RECURSIVE concat(_)
concat(ss) == IF ss = <<>> THEN <<>> ELSE Head(ss) \o concat(Tail(ss))

\* helpers.nibbles: pack a nibble string into bytes, high nibble first; an
\* odd trailing nibble takes the high half of the last byte.
nibbles(p) ==
  [i \in 1..((Len(p) + 1) \div 2) |->
     16 * p[2 * i - 1] + (IF 2 * i <= Len(p) THEN p[2 * i] ELSE 0)]

\* Length of the longest common prefix of two strings.
RECURSIVE commonLen(_, _)
commonLen(a, b) ==
  IF a = <<>> \/ b = <<>> \/ Head(a) # Head(b) THEN 0
  ELSE 1 + commonLen(Tail(a), Tail(b))

\* helpers.commonPrefix: the longest common prefix of a non-empty list of
\* strings.
RECURSIVE commonPrefix(_)
commonPrefix(keys) ==
  IF Len(keys) = 1 THEN keys[1]
  ELSE LET rest == commonPrefix(Tail(keys))
       IN  SubSeq(rest, 1, commonLen(keys[1], rest))

\* Buffer.prototype.toString('hex'): two nibbles per byte.
toHex(bytes) ==
  [i \in 1..(2 * Len(bytes)) |->
     IF i % 2 = 1 THEN bytes[(i + 1) \div 2] \div 16 ELSE bytes[i \div 2] % 16]

\* ----------------------------------------------------------------- hashing

\* digest: blake2b(DIGEST_LENGTH), idealised.
digest(msg) == <<255>> \o msg \o <<254>>

\* The 'undefined' of a hash-typed expression.
undefinedHash == <<>>

\* The hex renderings of the digests of the first values: arbitrary nibble
\* strings, pairwise distinct, some of them sharing leading nibbles.
KeyTable ==
  << <<0, 0, 0>>, <<7, 0, 0>>, <<7, 0, 7>>, <<14, 0, 0>>, <<0, 7, 0>>,
     <<7, 14, 0>>, <<14, 14, 7>>, <<0, 7, 7>> >>

\* intoKey: the hex rendering of digest(value), KeyLen nibbles long.
intoKey(value) ==
  [i \in 1..KeyLen |->
     IF i <= Len(KeyTable[value[1] + 1]) THEN KeyTable[value[1] + 1][i] ELSE 0]

\* ------------------------------------------------------------------- nodes

\* A Tree object; 'children' is <<>> on the classes that have no such field.
Node(kind, prefix, value, children, hash, size) ==
  [kind |-> kind, prefix |-> prefix, value |-> value, children |-> children,
   hash |-> hash, size |-> size]

\* An 'undefined' slot of a children vector.
undefined == Node("undefined", <<>>, <<>>, <<>>, undefinedHash, 0)

\* An AssertionError thrown while building.
AssertionError == Node("AssertionError", <<>>, <<>>, <<>>, undefinedHash, 0)

\* new Tree()
NewTree == Node("Tree", <<>>, <<>>, <<>>, [i \in 1..DIGEST_LENGTH |-> 0], 0)

isEmpty(t) == t.size = 0

\* Leaf.prototype.setPrefix(prefix).hash
LeafHash(value) == digest(value)

\* new Leaf(prefix, value)
NewLeaf(prefix, value) == Node("Leaf", prefix, value, <<>>, LeafHash(value), 1)

\* BranchNode.prototype.setPrefix(prefix).hash over a children vector of
\* hashes (verify) or of nodes (constructor) given here by their hashes.
BranchHash(prefix, hashes) ==
  digest(nibbles(prefix) \o concat(SelectSeq(hashes, LAMBDA h : h # undefinedHash)))

RECURSIVE sum(_)
sum(ns) == IF ns = <<>> THEN 0 ELSE Head(ns) + sum(Tail(ns))

\* A size that counts the children instead of adding up their sizes.
BranchSizeOfChildren(children) == Len(SelectSeq(children, LAMBDA c : c.kind # "undefined"))

\* children.reduce((size, child) => size + (child?.size || 0), 0)
BranchSize(children) == sum([i \in DOMAIN children |-> children[i].size])

\* The assertions of the BranchNode constructor.
BranchAsserts(children) ==
  /\ \A i \in DOMAIN children :
       children[i].kind # "undefined" =>
         children[i].kind \in {"Tree", "Leaf", "BranchNode"} /\ ~isEmpty(children[i])
  /\ Len(SelectSeq(children, LAMBDA c : c.kind # "undefined")) > 1
  /\ Len(children) = 16

\* new BranchNode(prefix, children)
NewBranchNode(prefix, children) ==
  IF ~BranchAsserts(children) THEN AssertionError
  ELSE Node("BranchNode", prefix, <<>>, children,
            BranchHash(prefix, [i \in DOMAIN children |-> children[i].hash]),
            BranchSize(children))

\* ---------------------------------------------------------------- fromList

\* A strip that leaves the common prefix on the keys.
StrippedNoSlice(keyValues, prefix) == keyValues

\* keyValues.map(kv => ({ ...kv, key: kv.key.slice(prefix.length) }))
Stripped(keyValues, prefix) ==
  [i \in DOMAIN keyValues |->
     [key |-> sliceFrom(keyValues[i].key, Len(prefix)), value |-> keyValues[i].value]]

\* A bucket that keeps only the first key routed to the digit.
BucketFirstOnly(stripped, digit) ==
  LET hits == SelectSeq(stripped, LAMBDA kv : kv.key[1] = digit)
  IN  IF hits = <<>> THEN <<>>
      ELSE <<[key |-> Tail(hits[1].key), value |-> hits[1].value]>>

\* stripped.reduce(...): the key-values routed to 'digit', first nibble dropped.
Bucket(stripped, digit) ==
  LET hits == SelectSeq(stripped, LAMBDA kv : kv.key[1] = digit)
  IN  [i \in DOMAIN hits |-> [key |-> Tail(hits[i].key), value |-> hits[i].value]]

RECURSIVE loop(_)
loop(keyValues) ==
  IF Len(keyValues) = 0 THEN NewTree
  ELSE
    LET prefix == commonPrefix([i \in DOMAIN keyValues |-> keyValues[i].key])
    IN  IF Len(keyValues) = 1 THEN NewLeaf(prefix, keyValues[1].value)
        ELSE
          LET stripped == Stripped(keyValues, prefix)
          IN  \* assert(kv.key[0] !== undefined)
              IF \E i \in DOMAIN stripped : stripped[i].key = <<>> THEN AssertionError
              ELSE
                LET built == [d \in 1..Radix |-> loop(Bucket(stripped, d - 1))]
                    children == [d \in 1..Radix |->
                                   IF isEmpty(built[d]) /\ built[d].kind # "AssertionError"
                                   THEN undefined ELSE built[d]]
                IN  IF \E d \in 1..Radix : built[d].kind = "AssertionError"
                    THEN AssertionError
                    ELSE NewBranchNode(prefix, children)

\* Tree.fromList(values)
fromList(values) ==
  loop([i \in DOMAIN values |-> [key |-> intoKey(values[i]), value |-> values[i]]])

\* ------------------------------------------------------------------- proof

\* new Proof(value)
NewProof(value) == [status |-> "ok", value |-> value, steps |-> <<>>]

\* A walk that threw; 'why' names the throwing statement.
Thrown(why) == [status |-> why, value |-> <<>>, steps |-> <<>>]

\* A rewind that appends the step instead of prepending it.
rewindPush(p, target, skip, children) ==
  LET kept == SelectSeq(children,
                LAMBDA x : ~(x.kind # "undefined" /\ x.hash = target.hash))
  IN  [p EXCEPT !.steps =
         @ \o <<[skip |-> skip, neighbors |-> [i \in DOMAIN kept |-> kept[i].hash]]>>]

\* Proof.rewind(target, skip, children): steps.unshift({skip, neighbors}).
rewind(p, target, skip, children) ==
  LET kept == SelectSeq(children,
                LAMBDA x : ~(x.kind # "undefined" /\ x.hash = target.hash))
  IN  [p EXCEPT !.steps =
         <<[skip |-> skip, neighbors |-> [i \in DOMAIN kept |-> kept[i].hash]]>> \o @]

\* A Leaf.walk without the prefix assertion.
LeafWalkUnchecked(t, path) == NewProof(t.value)

\* Leaf.walk(path)
LeafWalk(t, path) ==
  IF startsWith(path, t.prefix) THEN NewProof(t.value) ELSE Thrown("non-matching prefix")

\* Tree.walk(path) of the three classes; BranchNode.walk recurses.
RECURSIVE walk(_, _)
walk(t, path) ==
  IF t.kind = "Tree" THEN Thrown("cannot walk empty tree")
  ELSE IF t.kind = "Leaf" THEN LeafWalk(t, path)
  ELSE
    IF ~startsWith(path, t.prefix) THEN Thrown("non-matching prefix")
    ELSE
      LET skip == Len(t.prefix)
          rest == sliceFrom(path, skip)
          \* children[Number.parseInt(undefined, 16)] is undefined
          child == IF rest = <<>> THEN undefined ELSE t.children[rest[1] + 1]
      IN  IF child.kind = "undefined" THEN Thrown("no child at branch")
          ELSE LET sub == walk(child, sliceFrom(rest, 1))
               IN  IF sub.status # "ok" THEN sub
                   ELSE rewind(sub, child, skip, t.children)

\* Tree.prove(value)
prove(t, value) == walk(t, intoKey(value))

\* The nibble verify reads for a step: Number.parseInt(path[cursor], 16).
\* Slicing at NaN slices at 0.
VerifyNibble(path, cursor, skip) ==
  IF cursor < Len(path) THEN path[cursor + 1] ELSE 0

\* steps.reduceRight(...) of Proof.verify, from step ix down to the first.
RECURSIVE verifyFold(_, _, _, _, _)
verifyFold(steps, ix, cursorIn, currentHash, path) ==
  IF ix = 0 THEN currentHash
  ELSE
    LET step == steps[ix]
        cursor == cursorIn - (1 + step.skip)
        nibble == VerifyNibble(path, cursor, step.skip)
        prefix == IF step.skip = 0 THEN <<>> ELSE slice(path, cursor, cursor + step.skip)
        neighbors == SelectSeq(step.neighbors, LAMBDA x : x # undefinedHash)
        children == slice(step.neighbors, 0, nibble)
                      \o (IF currentHash = undefinedHash THEN <<>> ELSE <<currentHash>>)
                      \o sliceFrom(step.neighbors, nibble)
    IN  IF currentHash = undefinedHash /\ Len(neighbors) = 1
        THEN verifyFold(steps, ix - 1, cursor, neighbors[1], path)
        ELSE verifyFold(steps, ix - 1, cursor, BranchHash(prefix, children), path)

\* Proof.verify(withElement): a hash, or undefinedHash.
verify(p, withElement) ==
  LET path == intoKey(p.value)
      cursor == sum([i \in DOMAIN p.steps |-> 1 + p.steps[i].skip])
      zero == IF withElement THEN LeafHash(p.value) ELSE undefinedHash
  IN  verifyFold(p.steps, Len(p.steps), cursor, zero, path)

\* The lookup array of Proof.serialise: for each entry of step.neighbors,
\* the number of defined entries before it.
Lookup(neighbors) ==
  [i \in DOMAIN neighbors |->
     Len(SelectSeq(SubSeq(neighbors, 1, i - 1), LAMBDA x : x # undefinedHash))]

\* Proof.serialise(): the steps as they are handed to JSON.stringify.
serialise(p) ==
  [k \in DOMAIN p.steps |->
     [skip |-> p.steps[k].skip,
      neighbors |-> concat([i \in DOMAIN p.steps[k].neighbors |->
                              toHex(p.steps[k].neighbors[i])]),
      lookup |-> toHex(Lookup(p.steps[k].neighbors))]]

\* ----------------------------------------------------------------- childAt

\* Tree.childAt(path): reduce over the nibbles with tree?.children[nibble].
\* Indexing the missing 'children' of a Tree or Leaf throws a TypeError.
RECURSIVE childAt(_, _)
childAt(t, path) ==
  IF path = <<>> THEN [status |-> "ok", node |-> t]
  ELSE IF t.kind = "undefined" THEN childAt(undefined, Tail(path))
  ELSE IF t.kind # "BranchNode" THEN [status |-> "TypeError", node |-> undefined]
  ELSE childAt(t.children[Head(path) + 1], Tail(path))

\* ------------------------------------------------------------------- state

VARIABLES values, tree, proof, result

vars == <<values, tree, proof, result>>

\* The buffers a caller may hand to the library.
Values == {<<v>> : v \in 0..(NumValues - 1)}

RECURSIVE ListsOfLen(_)
ListsOfLen(n) ==
  IF n = 0 THEN {<<>>}
  ELSE {Append(l, v) : l \in ListsOfLen(n - 1), v \in Values}

Distinct(l) == \A i, j \in DOMAIN l : i # j => l[i] # l[j]

\* Lists of pairwise-distinct values of length at most MaxLen.
Lists == UNION {{l \in ListsOfLen(n) : Distinct(l)} : n \in 0..MaxLen}

NoProof == [status |-> "none", value |-> <<>>, steps |-> <<>>]

Result(op, arg, status, hash, node, out) ==
  [op |-> op, arg |-> arg, status |-> status, hash |-> hash, node |-> node, out |-> out]

Init ==
  /\ values = <<>>
  /\ tree = NewTree
  /\ proof = NoProof
  /\ result = Result("init", <<>>, "ok", undefinedHash, undefined, <<>>)

\* tree = Tree.fromList(list).  The list is any list of pairwise-distinct
\* values; fromList is static and reads no earlier state, so a run builds
\* one tree.
FromList ==
  /\ result.op = "init"
  /\ \E list \in Lists :
       /\ values' = list
       /\ tree' = fromList(list)
       /\ result' = Result("fromList", <<>>,
                           IF fromList(list).kind = "AssertionError" THEN "AssertionError" ELSE "ok",
                           undefinedHash, undefined, <<>>)
  /\ UNCHANGED proof

\* proof = tree.prove(value); a throw leaves the caller's proof as it was.
Prove ==
  /\ result.op # "init"
  /\ \E value \in Values :
       LET p == prove(tree, value)
       IN  /\ proof' = IF p.status = "ok" THEN p ELSE proof
           /\ result' = Result("prove", value, p.status, undefinedHash, undefined, <<>>)
  /\ UNCHANGED <<values, tree>>

\* proof.verify(withElement)
Verify ==
  /\ proof.status = "ok"
  /\ \E withElement \in BOOLEAN :
       LET h == verify(proof, withElement)
       IN  result' = Result("verify", <<IF withElement THEN 1 ELSE 0>>,
                            IF h = undefinedHash THEN "undefined" ELSE "ok",
                            h, undefined, <<>>)
  /\ UNCHANGED <<values, tree, proof>>

\* proof.serialise()
Serialise ==
  /\ proof.status = "ok"
  /\ result' = Result("serialise", <<>>, "ok", undefinedHash, undefined, serialise(proof))
  /\ UNCHANGED <<values, tree, proof>>

\* The nibbles of the paths handed to childAt: two that occur in keys and
\* one that occurs in none.
PathNibbles == {0, 7, 15}

RECURSIVE PathsOfLen(_)
PathsOfLen(n) ==
  IF n = 0 THEN {<<>>}
  ELSE {Append(p, b) : p \in PathsOfLen(n - 1), b \in PathNibbles}

Paths == UNION {PathsOfLen(n) : n \in 0..MaxPath}

\* tree.childAt(path)
ChildAt ==
  /\ \E path \in Paths :
       LET c == childAt(tree, path)
       IN  result' = Result("childAt", path, c.status, undefinedHash, c.node, <<>>)
  /\ UNCHANGED <<values, tree, proof>>

Next == FromList \/ Prove \/ Verify \/ Serialise \/ ChildAt

Spec == Init /\ [][Next]_vars

\* ------------------------------------------------------------------ claims

\* The set of the values the tree was built from.
ValueSet == {values[i] : i \in DOMAIN values}

\* C1: round-trip inclusion: verify(true) on the proof of a member of the
\* tree returns the root hash of the tree, whatever the shape of the tree.
C1_RoundTrip ==
  (result.op = "verify" /\ result.arg = <<1>>) => result.hash = tree.hash

\* C2: insert/delete duality: verify(false) on the proof of a member v of a
\* tree of at least two values returns the root hash of the tree built from
\* the other values.
C2_Duality ==
  (result.op = "verify" /\ result.arg = <<0>> /\ Len(values) >= 2) =>
    result.hash = fromList(SelectSeq(values, LAMBDA x : x # proof.value)).hash

\* C6: verify never returns undefined; in particular verify(false) on a
\* proof without steps does not.
C6_VerifyReturnsHash ==
  result.op = "verify" => result.status = "ok"

\* C7: childAt returns a node or undefined and raises no error, also on an
\* empty tree and on a path that continues past a Leaf.
C7_ChildAtNoError ==
  result.op = "childAt" => result.status = "ok"

\* The values of a set as a list in ascending order.
RECURSIVE SortedList(_)
SortedList(S) ==
  IF S = {} THEN <<>>
  ELSE LET m == CHOOSE x \in S : \A y \in S : x[1] <= y[1]
       IN  <<m>> \o SortedList(S \ {m})

\* The children of a node that are not undefined, in slot order.
Present(t) == SelectSeq(t.children, LAMBDA c : c.kind # "undefined")

\* Some child of the root is itself a BranchNode.
HasInnerBranch(t) ==
  t.kind = "BranchNode" /\ \E i \in DOMAIN t.children : t.children[i].kind = "BranchNode"

\* C3: canonicality: the tree built from a list is the tree built from any
\* other ordering of the same values (here: from the ascending one), with
\* the same prefixes, slots, leaf values and hashes.
C3_Canonical ==
  result.op = "fromList" => tree = fromList(SortedList(ValueSet))

C3_Witness ==
  /\ result.op = "fromList"
  /\ Len(values) = 3
  /\ values[1][1] > values[2][1]
  /\ values[2][1] > values[3][1]
  /\ HasInnerBranch(tree)

\* C4: prove returns a Proof carrying v exactly when v is a value of the
\* tree; otherwise it throws on the empty tree, on a non-matching prefix or
\* on an absent slot, and the tree is what it was.
C4_ProveMembership ==
  result.op = "prove" =>
    /\ (result.status = "ok") <=> (result.arg \in ValueSet)
    /\ result.status = "ok" => (proof.status = "ok" /\ proof.value = result.arg)
    /\ result.status # "ok" =>
         /\ result.status \in
              {"cannot walk empty tree", "non-matching prefix", "no child at branch"}
         /\ (result.status = "cannot walk empty tree") <=> (values = <<>>)
    /\ tree = fromList(values)

C4_Witness ==
  /\ result.op = "prove"
  /\ result.status = "non-matching prefix"
  /\ tree.kind = "BranchNode"
  /\ tree.prefix = <<>>
  /\ proof.status = "ok"
  /\ proof.value \in ValueSet

\* The number of leaves below a node.
RECURSIVE Leaves(_)
Leaves(t) ==
  IF t.kind = "Leaf" THEN 1
  ELSE IF t.kind = "BranchNode"
       THEN sum([i \in DOMAIN t.children |-> Leaves(t.children[i])])
       ELSE 0

RECURSIVE SizesOk(_)
SizesOk(t) ==
  /\ t.size = Leaves(t)
  /\ \A i \in DOMAIN t.children : SizesOk(t.children[i])

RECURSIVE PathBranches(_, _)
PathBranches(t, path) ==
  IF t.kind # "BranchNode" THEN <<>>
  ELSE LET slot == path[Len(t.prefix) + 1]
       IN  <<[node |-> t, slot |-> slot]>>
             \o PathBranches(t.children[slot + 1], sliceFrom(path, Len(t.prefix) + 1))

RECURSIVE PathEnd(_, _)
PathEnd(t, path) ==
  IF t.kind # "BranchNode" THEN t
  ELSE PathEnd(t.children[path[Len(t.prefix) + 1] + 1], sliceFrom(path, Len(t.prefix) + 1))

\* The hashes of the present children of a BranchNode other than the one in
\* 'slot', in ascending slot order.
SiblingHashes(t, slot) ==
  LET others == SelectSeq([i \in 1..16 |-> IF i = slot + 1 THEN undefined ELSE t.children[i]],
                          LAMBDA c : c.kind # "undefined")
  IN  [i \in DOMAIN others |-> others[i].hash]

\* C8: each serialised step has a lookup of 16 bytes, one per slot, the
\* byte of slot i counting the present neighbors in the slots before i, and
\* its neighbors are the present sibling hashes in ascending slot order.
C8_WireFormat ==
  result.op = "serialise" =>
    LET bs == PathBranches(tree, intoKey(proof.value))
    IN  \A k \in DOMAIN result.out :
          /\ Len(result.out[k].lookup) = 2 * 16
          /\ \A i \in 0..15 :
               16 * result.out[k].lookup[2 * i + 1] + result.out[k].lookup[2 * i + 2]
                 = Cardinality({j \in 0..(i - 1) :
                                  j # bs[k].slot /\ bs[k].node.children[j + 1].kind # "undefined"})
          /\ result.out[k].neighbors
               = concat([i \in DOMAIN SiblingHashes(bs[k].node, bs[k].slot) |->
                           toHex(SiblingHashes(bs[k].node, bs[k].slot)[i])])

\* Every BranchNode below t has 16 slots, at least two present children and
\* no empty child.
RECURSIVE WellFormed(_)
WellFormed(t) ==
  /\ t.kind \in {"Tree", "Leaf", "BranchNode", "undefined"}
  /\ t.kind = "BranchNode" =>
       /\ Len(t.children) = 16
       /\ Len(Present(t)) >= 2
       /\ \A i \in DOMAIN t.children :
            t.children[i].kind # "Tree" /\ WellFormed(t.children[i])

\* C9: no assertion fires while a list of distinct values is built, and
\* every BranchNode of the result has 16 slots, at least two present
\* children and no empty child.
C9_Structure ==
  result.op = "fromList" => (result.status = "ok" /\ WellFormed(tree))

C9_Witness ==
  /\ result.op = "fromList"
  /\ tree.kind = "BranchNode"
  /\ Len(tree.prefix) = 2
  /\ Len(Present(tree)) = 2

\* C10: the steps of a proof are, from the root down, one per BranchNode on
\* the way to the value's Leaf, with skip the length of its prefix and the
\* hashes held by neighbors those of its other present children in slot
\* order; so there are at most KeyLen steps, and the steps' 1 + skip and
\* the Leaf's prefix add up to KeyLen.
C10_ProofShape ==
  proof.status = "ok" =>
    LET key == intoKey(proof.value)
        bs == PathBranches(tree, key)
        leaf == PathEnd(tree, key)
    IN  /\ Len(proof.steps) = Len(bs)
        /\ \A k \in DOMAIN proof.steps :
             /\ proof.steps[k].skip = Len(bs[k].node.prefix)
             /\ SelectSeq(proof.steps[k].neighbors, LAMBDA x : x # undefinedHash)
                  = SiblingHashes(bs[k].node, bs[k].slot)
        /\ Len(proof.steps) <= KeyLen
        /\ leaf.kind = "Leaf"
        /\ leaf.value = proof.value
        /\ sum([k \in DOMAIN proof.steps |-> 1 + proof.steps[k].skip]) + Len(leaf.prefix)
             = KeyLen

C10_Witness ==
  /\ proof.status = "ok"
  /\ Len(proof.steps) = 2
  /\ proof.steps[1].skip = 0
  /\ proof.steps[2].skip = 1
  /\ Len(SelectSeq(proof.steps[1].neighbors, LAMBDA x : x # undefinedHash)) = 1

====
